---- MODULE Spec2Model ----
(***************************************************************************)
(* Model of app.py: the RAG consultation tool over a penal case file.      *)
(*                                                                         *)
(* Two specifications share the module:                                    *)
(*   SpecBuscar  applies buscar_documentos (a pure function of the index   *)
(*               answer and the chunk list) to bounded inputs;             *)
(*   Spec        is the Streamlit application: every action is one script  *)
(*               run of main() for one browser session, triggered by one   *)
(*               widget event, including the run that st.rerun() starts.   *)
(*                                                                         *)
(* Strings that the code concatenates are sequences of tokens; scores are  *)
(* integers (thousandths); Python's None is the string "None".             *)
(***************************************************************************)
EXTENDS Integers, Sequences, FiniteSets, TLC

VARIABLES
    autenticado,   \* st.session_state.autenticado, per session
    usuario,       \* st.session_state.usuario, per session
    mensajes,      \* st.session_state.mensajes, per session
    disk,          \* the data files INDEX_PATH and CHUNKS_PATH
    cache,         \* st.cache_resource entry of cargar_indice (process wide)
    last,          \* what the last script run did and showed
    prueba         \* SpecBuscar: inputs and result of one buscar_documentos call

vars == <<autenticado, usuario, mensajes, disk, cache, last, prueba>>

----------------------------------------------------------------------------
(* Bounds *)

MaxChunks == 2      \* chunk lists of 0..MaxChunks records
MaxPos == 2         \* SpecBuscar: index positions range over -1..MaxPos
MaxRank == 3        \* SpecBuscar: the index stores at most MaxRank vectors
MaxTopK == 3        \* SpecBuscar: top_k ranges over 1..MaxTopK
MaxMensajes == 4    \* transcript entries kept by all sessions together

Sesiones == {"s1", "s2"}
Queries == {"q1", "q2"}
Scores == {1, 2}
Tipos == {"acta", "resolucion"}

(* Program constants *)

TOP_K_DEFAULT == 8
SLIDER_MIN == 3
SLIDER_DEFAULT == 10
ERROR_PREFIX == "Error al consultar IA: "
None == "None"

USUARIOS ==
    [u \in {"raul", "abogado", "juan"} |->
        CASE u = "raul" -> "caso2024"
          [] u = "abogado" -> "defensa2024"
          [] u = "juan" -> "admin2024"]

----------------------------------------------------------------------------
(* Chunk store file: record i of chunks_caso.json *)

ChunkRec(i) ==
    [chunk_id |-> i,
     documento_id |-> (i + 1) \div 2,
     archivo_original |-> "expediente.pdf",
     tipo_documento |-> IF i % 2 = 1 THEN "acta" ELSE "resolucion",
     pagina |-> i,
     texto |-> <<"texto", i>>,
     personas_mencionadas |-> IF i % 2 = 1 THEN <<>> ELSE <<"Oliva", "Herrera">>]

ChunkFile(n) == [i \in 1..n |-> ChunkRec(i)]

(* Python list indexing: chunks[idx] succeeds for -len <= idx < len, and a
   negative idx counts from the end; anything else raises IndexError. *)
PyValid(idx, n) == idx >= 0 - n /\ idx < n

PyPos(idx, n) == IF idx >= 0 THEN idx + 1 ELSE n + idx + 1

Min(a, b) == IF a < b THEN a ELSE b

(* faiss index.search: the k best (score, id) pairs of the stored ranking for
   the query, padded with id -1 (and the lowest score) when fewer than k
   vectors are stored.  An index is the ranking it answers per query. *)
PadScore == 0 - 1000000

index_search(index, consulta, k) ==
    LET r == index[consulta]
    IN [j \in 1..k |-> IF j <= Len(r) THEN r[j] ELSE <<PadScore, -1>>]

(* chunk = chunks[idx].copy(); chunk["score"] = float(score): the score goes
   on the copy, the stored list is left as it is. *)
AnotarSinCopia(chunks, p, score) ==
    [chunk |-> ("score" :> score) @@ chunks[p],
     chunks |-> [chunks EXCEPT ![p] = ("score" :> score) @@ chunks[p]]]

Anotar(chunks, p, score) ==
    [chunk |-> ("score" :> score) @@ chunks[p],
     chunks |-> chunks]

(* resultados.append(chunk) *)
AgregarAlInicio(resultados, chunk) == <<chunk>> \o resultados

Agregar(resultados, chunk) == Append(resultados, chunk)

(* the loop of buscar_documentos over zip(scores[0], indices[0]) *)
RECURSIVE Recorrer(_, _, _)
Recorrer(pares, j, st) ==
    IF j > Len(pares) THEN st
    ELSE LET score == pares[j][1]
             idx == pares[j][2]
             n == Len(st.chunks)
         IN IF idx < n
            THEN IF ~PyValid(idx, n)
                 THEN [st EXCEPT !.fault = TRUE]
                 ELSE LET a == Anotar(st.chunks, PyPos(idx, n), score)
                      IN Recorrer(pares, j + 1,
                            [fault |-> FALSE,
                             resultados |-> Agregar(st.resultados, a.chunk),
                             chunks |-> a.chunks])
            ELSE Recorrer(pares, j + 1, st)

buscar_documentos_k1(consulta, index, chunks, top_k) ==
    Recorrer(index_search(index, consulta, top_k + 1), 1,
             [fault |-> FALSE, resultados |-> <<>>, chunks |-> chunks])

buscar_documentos(consulta, index, chunks, top_k) ==
    Recorrer(index_search(index, consulta, top_k), 1,
             [fault |-> FALSE, resultados |-> <<>>, chunks |-> chunks])

----------------------------------------------------------------------------
(* The data files and their cached load *)

FullCorpus == TOP_K_DEFAULT + 1

Archivos(i, c, t, n) ==
    [index_exists |-> i, chunks_exists |-> c, ntotal |-> t, nchunks |-> n]

DiskStates ==
    {Archivos(TRUE, TRUE, 0, 0),
     Archivos(TRUE, TRUE, MaxChunks, MaxChunks),
     Archivos(TRUE, TRUE, MaxChunks + 1, MaxChunks),
     Archivos(TRUE, TRUE, FullCorpus, FullCorpus),
     Archivos(FALSE, TRUE, 1, 1), Archivos(TRUE, FALSE, 1, 1),
     Archivos(FALSE, FALSE, 1, 1)}

(* the embedding of the query and the stored vectors fix one ranking per
   query: n ids in an order that depends on the query, scores descending *)
QOffset(q) == IF q = "q1" THEN 0 ELSE 1

Ranking(q, n) == [j \in 1..n |-> <<1000 - 10 * j, (QOffset(q) + j - 1) % n>>]

LeerIndice(d) == [q \in Queries |-> Ranking(q, d.ntotal)]

cargar_indice_vacio(d) ==
    IF ~d.index_exists \/ ~d.chunks_exists
    THEN [kind |-> "bundle", index |-> [q \in Queries |-> <<>>], chunks |-> <<>>]
    ELSE [kind |-> "bundle", index |-> LeerIndice(d), chunks |-> ChunkFile(d.nchunks)]

cargar_indice(d) ==
    IF ~d.index_exists \/ ~d.chunks_exists
    THEN [kind |-> "None"]
    ELSE [kind |-> "bundle", index |-> LeerIndice(d), chunks |-> ChunkFile(d.nchunks)]

(* @st.cache_resource: the body runs only when the cache holds no entry *)
CacheVacio == [kind |-> "vacio"]

cache_resource_sin_cache(c, d) == [valor |-> cargar_indice(d), leyo |-> TRUE]

cache_resource(c, d) ==
    IF c.kind = "vacio"
    THEN [valor |-> cargar_indice(d), leyo |-> TRUE]
    ELSE [valor |-> c, leyo |-> FALSE]

----------------------------------------------------------------------------
(* consultar_deepseek *)

ApiOutcomes == {"ok", "timeout", "http_500", "sin_choices"}

Encabezado(i, r) ==
    [n |-> i, documento |-> r.archivo_original, tipo |-> r.tipo_documento,
     pagina |-> r.pagina, relevancia |-> r.score,
     personas |-> IF r.personas_mencionadas = <<>> THEN <<"N/A">>
                  ELSE r.personas_mencionadas,
     texto |-> r.texto]

Contexto(resultados) == [i \in 1..Len(resultados) |-> Encabezado(i, resultados[i])]

ErrorStr(e) == <<ERROR_PREFIX, e>>

consultar_deepseek_solo_red(consulta, resultados, api) ==
    LET prompt == [contexto |-> Contexto(resultados), consulta |-> consulta]
    IN IF api = "timeout"
       THEN [prompt |-> prompt, excepcion |-> FALSE, respuesta |-> ErrorStr(api)]
       ELSE IF api = "http_500"
       THEN [prompt |-> prompt, excepcion |-> FALSE, respuesta |-> ErrorStr("500 Server Error")]
       ELSE IF api = "sin_choices"
       THEN [prompt |-> prompt, excepcion |-> TRUE, respuesta |-> <<>>]
       ELSE [prompt |-> prompt, excepcion |-> FALSE, respuesta |-> <<"contenido">>]

consultar_deepseek(consulta, resultados, api) ==
    LET prompt == [contexto |-> Contexto(resultados), consulta |-> consulta]
    IN IF api = "timeout"
       THEN [prompt |-> prompt, excepcion |-> FALSE, respuesta |-> ErrorStr(api)]
       ELSE IF api = "http_500"
       THEN [prompt |-> prompt, excepcion |-> FALSE, respuesta |-> ErrorStr("500 Server Error")]
       ELSE IF api = "sin_choices"
       THEN [prompt |-> prompt, excepcion |-> FALSE, respuesta |-> ErrorStr("'choices'")]
       ELSE [prompt |-> prompt, excepcion |-> FALSE, respuesta |-> <<"contenido">>]

----------------------------------------------------------------------------
(* verificar_login: the login gate.  pressed says whether "Ingresar" was
   pressed in this run with the text inputs u and c. *)

verificar_login_sin_clave(aut, usr, pressed, u, c) ==
    IF aut THEN [retorno |-> TRUE, autenticado |-> aut, usuario |-> usr,
                 rechazo |-> FALSE, rerun |-> FALSE]
    ELSE IF pressed /\ u \in DOMAIN USUARIOS
    THEN [retorno |-> FALSE, autenticado |-> TRUE, usuario |-> u,
          rechazo |-> FALSE, rerun |-> TRUE]
    ELSE [retorno |-> FALSE, autenticado |-> aut, usuario |-> usr,
          rechazo |-> pressed, rerun |-> FALSE]

verificar_login(aut, usr, pressed, u, c) ==
    IF aut THEN [retorno |-> TRUE, autenticado |-> aut, usuario |-> usr,
                 rechazo |-> FALSE, rerun |-> FALSE]
    ELSE IF pressed /\ u \in DOMAIN USUARIOS /\ USUARIOS[u] = c
    THEN [retorno |-> FALSE, autenticado |-> TRUE, usuario |-> u,
          rechazo |-> FALSE, rerun |-> TRUE]
    ELSE [retorno |-> FALSE, autenticado |-> aut, usuario |-> usr,
          rechazo |-> pressed, rerun |-> FALSE]

----------------------------------------------------------------------------
(* SpecBuscar: buscar_documentos on bounded inputs *)

Posiciones == (0 - 1)..MaxPos

Rankings == UNION {[1..n -> Scores \X Posiciones] : n \in 0..MaxRank}

NoPrueba == [fase |-> "ninguna"]

InitSesion ==
    /\ autenticado = [s \in Sesiones |-> FALSE]
    /\ usuario = [s \in Sesiones |-> None]
    /\ mensajes = [s \in Sesiones |-> <<>>]
    /\ cache = [kind |-> "vacio"]
    /\ last = [evento |-> "inicio"]

InitBuscar ==
    /\ InitSesion
    /\ disk = [index_exists |-> FALSE, chunks_exists |-> FALSE]
    /\ \E r \in Rankings, n \in 0..MaxChunks, k \in 1..MaxTopK, q \in Queries :
          prueba = [fase |-> "entrada", consulta |-> q,
                    index |-> [c \in Queries |-> r],
                    chunks |-> ChunkFile(n), top_k |-> k]

Aplicar ==
    /\ prueba.fase = "entrada"
    /\ prueba' = [fase |-> "salida", consulta |-> prueba.consulta,
                  index |-> prueba.index, chunks |-> prueba.chunks,
                  top_k |-> prueba.top_k,
                  devuelto |-> index_search(prueba.index, prueba.consulta, prueba.top_k),
                  salida |-> buscar_documentos(prueba.consulta, prueba.index,
                                               prueba.chunks, prueba.top_k)]
    /\ UNCHANGED <<autenticado, usuario, mensajes, disk, cache, last>>

NextBuscar == Aplicar

SpecBuscar == InitBuscar /\ [][NextBuscar]_vars

----------------------------------------------------------------------------
(* main(): the page behind the login gate (lines 339-506), for a run in
   which neither sidebar button is pressed.  consulta is the chat input
   (None when nothing was submitted), api the outcome of the HTTP exchange,
   w the values of the direct-search widgets.
   CHOOSE y \in {e(x) : x \in {v}} : TRUE is "let x be the value of v in
   e(x)": it evaluates v once. *)

Usuario(consulta) == [role |-> "user", content |-> <<consulta>>]

Asistente(respuesta) == [role |-> "assistant", content |-> respuesta]

TabChat(b, msgs, consulta, api) ==
    IF consulta = None
    THEN [chunks |-> b.chunks, mensajes |-> msgs, busquedas |-> 0, llamadas_api |-> 0,
          excepcion |-> FALSE, resultados |-> <<>>, prompt |-> None, mostrado |-> None,
          api |-> None]
    ELSE CHOOSE y \in
           {IF r.fault
            THEN [chunks |-> r.chunks, mensajes |-> Append(msgs, Usuario(consulta)),
                  busquedas |-> 1, llamadas_api |-> 0, excepcion |-> TRUE,
                  resultados |-> <<>>, prompt |-> None, mostrado |-> None,
                  api |-> None]
            ELSE CHOOSE z \in
                   {IF a.excepcion
                    THEN [chunks |-> r.chunks,
                          mensajes |-> Append(msgs, Usuario(consulta)),
                          busquedas |-> 1, llamadas_api |-> 1, excepcion |-> TRUE,
                          resultados |-> r.resultados, prompt |-> a.prompt,
                          mostrado |-> None, api |-> api]
                    ELSE [chunks |-> r.chunks,
                          mensajes |-> Append(Append(msgs, Usuario(consulta)),
                                              Asistente(a.respuesta)),
                          busquedas |-> 1, llamadas_api |-> 1, excepcion |-> FALSE,
                          resultados |-> r.resultados, prompt |-> a.prompt,
                          mostrado |-> a.respuesta, api |-> api]
                      : a \in {consultar_deepseek(consulta, r.resultados, api)}} : TRUE
              : r \in {buscar_documentos(consulta, b.index, b.chunks, TOP_K_DEFAULT)}}
           : TRUE

Filtrar(resultados, filtro_tipo) ==
    LET DelTipo(x) == x.tipo_documento = filtro_tipo
    IN IF filtro_tipo # "Todos" THEN SelectSeq(resultados, DelTipo) ELSE resultados

TabBusqueda(index, chunks, w) ==
    IF w.busqueda = ""
    THEN [chunks |-> chunks, busquedas |-> 0, excepcion |-> FALSE, encontrados |-> -1]
    ELSE CHOOSE y \in
           {IF r.fault
            THEN [chunks |-> r.chunks, busquedas |-> 1, excepcion |-> TRUE,
                  encontrados |-> -1]
            ELSE [chunks |-> r.chunks, busquedas |-> 1, excepcion |-> FALSE,
                  encontrados |-> Min(Len(Filtrar(r.resultados, w.filtro_tipo)),
                                      w.num_resultados)]
              : r \in {buscar_documentos(w.busqueda, index, chunks,
                                         w.num_resultados * 2)}}
           : TRUE

(* the tabs, shown when the bundle is loaded; an exception in the chat tab
   ends the run before the search tab *)
Tabs(b, leyo, msgs, consulta, api, w) ==
    CHOOSE y \in
      {IF chat.excepcion
       THEN [cache |-> [b EXCEPT !.chunks = chat.chunks],
             mensajes |-> chat.mensajes, leyo |-> leyo,
             error_indice |-> FALSE, busquedas |-> chat.busquedas,
             llamadas_api |-> chat.llamadas_api, excepcion |-> TRUE,
             resultados |-> chat.resultados, prompt |-> chat.prompt,
             mostrado |-> chat.mostrado, api |-> chat.api,
             encontrados |-> -1]
       ELSE CHOOSE z \in
              {[cache |-> [b EXCEPT !.chunks = bus.chunks],
                mensajes |-> chat.mensajes, leyo |-> leyo,
                error_indice |-> FALSE,
                busquedas |-> chat.busquedas + bus.busquedas,
                llamadas_api |-> chat.llamadas_api, excepcion |-> bus.excepcion,
                resultados |-> chat.resultados, prompt |-> chat.prompt,
                mostrado |-> chat.mostrado, api |-> chat.api,
                encontrados |-> bus.encontrados]
                 : bus \in {TabBusqueda(b.index, chat.chunks, w)}} : TRUE
         : chat \in {TabChat(b, msgs, consulta, api)}}
      : TRUE

PaginaPrincipal(c0, d, msgs, consulta, api, w) ==
    CHOOSE y \in
      {IF car.valor.kind = "None"
       THEN [cache |-> car.valor, mensajes |-> msgs, leyo |-> car.leyo,
             error_indice |-> TRUE, busquedas |-> 0, llamadas_api |-> 0,
             excepcion |-> FALSE, resultados |-> <<>>, prompt |-> None,
             mostrado |-> None, api |-> None, encontrados |-> -1]
       ELSE Tabs(car.valor, car.leyo, msgs, consulta, api, w)
         : car \in {cache_resource(c0, d)}}
      : TRUE

(* what a run reports: the page's effects plus the event that started it *)
Informe(ev, s, rechazo, leyo, pg) ==
    [evento |-> ev, sesion |-> s, rechazo |-> rechazo, leyo |-> leyo,
     error_indice |-> pg.error_indice, busquedas |-> pg.busquedas,
     llamadas_api |-> pg.llamadas_api, excepcion |-> pg.excepcion,
     resultados |-> pg.resultados, prompt |-> pg.prompt, mostrado |-> pg.mostrado,
     api |-> pg.api,
     encontrados |-> pg.encontrados]

(* a run that stops at the login gate shows no page *)
SinPagina ==
    [error_indice |-> FALSE, busquedas |-> 0, llamadas_api |-> 0, excepcion |-> FALSE,
     resultados |-> <<>>, prompt |-> None, mostrado |-> None, api |-> None, encontrados |-> -1]

----------------------------------------------------------------------------
(* Inputs *)

ChatQueries == {"q1"}

LoginUsuarios == {"raul", "abogado", "otro"}
LoginClaves == {"caso2024", "defensa2024"}

Widgets(b, n, f) == [busqueda |-> b, num_resultados |-> n, filtro_tipo |-> f]

WidgetsIniciales == Widgets("", SLIDER_DEFAULT, "Todos")

WidgetsDeBusqueda ==
    {Widgets(b, SLIDER_MIN, "acta") : b \in Queries}
      \cup {Widgets(b, SLIDER_DEFAULT, "Todos") : b \in Queries}

WidgetsEnOtraAccion == {WidgetsIniciales, Widgets("q2", SLIDER_MIN, "acta")}

RECURSIVE TotalMensajes(_)
TotalMensajes(S) ==
    IF S = {} THEN 0
    ELSE LET s == CHOOSE x \in S : TRUE
         IN Len(mensajes[s]) + TotalMensajes(S \ {s})

----------------------------------------------------------------------------
(* Spec: one action per widget event; each is a whole script run *)

Init ==
    /\ InitSesion
    /\ disk \in DiskStates
    /\ prueba = NoPrueba

(* "Ingresar" pressed on the login page with the text inputs u and c *)
Ingresar(s, u, c) ==
    /\ ~autenticado[s]
    /\ LET v == verificar_login(autenticado[s], usuario[s], TRUE, u, c)
       IN /\ autenticado' = [autenticado EXCEPT ![s] = v.autenticado]
          /\ usuario' = [usuario EXCEPT ![s] = v.usuario]
          /\ IF v.rerun
             THEN \E pg \in {PaginaPrincipal(cache, disk, mensajes[s], None, "ok",
                                            WidgetsIniciales)} :
                     /\ cache' = pg.cache
                     /\ mensajes' = [mensajes EXCEPT ![s] = pg.mensajes]
                     /\ last' = Informe("ingresar", s, v.rechazo, pg.leyo, pg)
             ELSE /\ last' = Informe("ingresar", s, v.rechazo, FALSE, SinPagina)
                  /\ UNCHANGED <<cache, mensajes>>
    /\ UNCHANGED <<disk, prueba>>

(* "Recargar" pressed: both caches are cleared and the script reruns *)
RecargarYOlvida(s, w) ==
    /\ autenticado[s]
    /\ \E pg \in {PaginaPrincipal(CacheVacio, disk, mensajes[s], None, "ok", w)} :
          /\ cache' = pg.cache
          /\ last' = Informe("recargar", s, FALSE, TRUE, SinPagina)
    /\ autenticado' = [autenticado EXCEPT ![s] = FALSE]
    /\ usuario' = [usuario EXCEPT ![s] = None]
    /\ UNCHANGED <<mensajes, disk, prueba>>

Recargar(s, w) ==
    /\ autenticado[s]
    /\ LET antes == cache_resource(cache, disk)
           pg == PaginaPrincipal(CacheVacio, disk, mensajes[s], None, "ok", w)
       IN /\ cache' = pg.cache
          /\ mensajes' = [mensajes EXCEPT ![s] = pg.mensajes]
          /\ last' = Informe("recargar", s, FALSE, antes.leyo \/ pg.leyo, pg)
    /\ UNCHANGED <<autenticado, usuario, disk, prueba>>

(* "Cerrar sesion" pressed: the rerun stops at the login gate *)
CerrarSesionSinRerun(s) ==
    /\ autenticado[s]
    /\ \E w \in WidgetsEnOtraAccion :
       \E pg \in {PaginaPrincipal(cache, disk, mensajes[s], None, "ok", w)} :
          /\ cache' = pg.cache
          /\ last' = Informe("cerrar_sesion", s, FALSE, pg.leyo, pg)
    /\ autenticado' = [autenticado EXCEPT ![s] = FALSE]
    /\ usuario' = [usuario EXCEPT ![s] = None]
    /\ UNCHANGED <<mensajes, disk, prueba>>

CerrarSesionYBorra(s) ==
    /\ autenticado[s]
    /\ LET antes == cache_resource(cache, disk)
       IN /\ cache' = antes.valor
          /\ last' = Informe("cerrar_sesion", s, FALSE, antes.leyo, SinPagina)
    /\ autenticado' = [autenticado EXCEPT ![s] = FALSE]
    /\ usuario' = [usuario EXCEPT ![s] = None]
    /\ mensajes' = [mensajes EXCEPT ![s] = <<>>]
    /\ UNCHANGED <<disk, prueba>>

CerrarSesion(s) ==
    /\ autenticado[s]
    /\ LET antes == cache_resource(cache, disk)
       IN /\ cache' = antes.valor
          /\ last' = Informe("cerrar_sesion", s, FALSE, antes.leyo, SinPagina)
    /\ autenticado' = [autenticado EXCEPT ![s] = FALSE]
    /\ usuario' = [usuario EXCEPT ![s] = None]
    /\ UNCHANGED <<mensajes, disk, prueba>>

(* a query submitted in the chat input *)
ConsultaChat(s, consulta, api, w) ==
    /\ autenticado[s]
    /\ cache.kind = "bundle"
    /\ TotalMensajes(Sesiones) + 2 <= MaxMensajes
    /\ \E pg \in {PaginaPrincipal(cache, disk, mensajes[s], consulta, api, w)} :
          /\ cache' = pg.cache
          /\ mensajes' = [mensajes EXCEPT ![s] = pg.mensajes]
          /\ last' = Informe("chat", s, FALSE, pg.leyo, pg)
    /\ UNCHANGED <<autenticado, usuario, disk, prueba>>

(* text entered in the direct-search box (or its slider or filter moved) *)
BusquedaDirecta(s, w) ==
    /\ autenticado[s]
    /\ cache.kind = "bundle"
    /\ \E pg \in {PaginaPrincipal(cache, disk, mensajes[s], None, "ok", w)} :
          /\ cache' = pg.cache
          /\ mensajes' = [mensajes EXCEPT ![s] = pg.mensajes]
          /\ last' = Informe("busqueda", s, FALSE, pg.leyo, pg)
    /\ UNCHANGED <<autenticado, usuario, disk, prueba>>

(* any other rerun of the script: no button pressed, nothing submitted *)
Rerun(s) ==
    /\ LET v == verificar_login(autenticado[s], usuario[s], FALSE, "", "")
       IN IF v.retorno
          THEN \E pg \in {PaginaPrincipal(cache, disk, mensajes[s], None, "ok",
                                         WidgetsIniciales)} :
                  /\ cache' = pg.cache
                  /\ mensajes' = [mensajes EXCEPT ![s] = pg.mensajes]
                  /\ last' = Informe("rerun", s, v.rechazo, pg.leyo, pg)
          ELSE /\ last' = Informe("rerun", s, v.rechazo, FALSE, SinPagina)
               /\ UNCHANGED <<cache, mensajes>>
    /\ UNCHANGED <<autenticado, usuario, disk, prueba>>

Next ==
    \E s \in Sesiones :
        \/ \E u \in LoginUsuarios, c \in LoginClaves : Ingresar(s, u, c)
        \/ \E w \in WidgetsEnOtraAccion : Recargar(s, w)
        \/ CerrarSesion(s)
        \/ \E q \in ChatQueries, api \in ApiOutcomes, w \in WidgetsEnOtraAccion :
              ConsultaChat(s, q, api, w)
        \/ \E w \in WidgetsDeBusqueda : BusquedaDirecta(s, w)
        \/ Rerun(s)

Spec == Init /\ [][Next]_vars

----------------------------------------------------------------------------
(* Properties of buscar_documentos (SpecBuscar) *)

Salio == prueba.fase = "salida"

EsIndiceValido(idx, n) == idx >= 0 /\ idx < n

ConScore(chunk, score) == ("score" :> score) @@ chunk

RECURSIVE Esperado(_, _, _)
Esperado(pares, j, chunks) ==
    IF j > Len(pares) THEN <<>>
    ELSE IF EsIndiceValido(pares[j][2], Len(chunks))
         THEN <<ConScore(chunks[pares[j][2] + 1], pares[j][1])>>
                  \o Esperado(pares, j + 1, chunks)
         ELSE Esperado(pares, j + 1, chunks)

(* C1: whatever positions the index returns, the call ends without an
   out-of-range fault and its output is exactly the scored chunks of the
   returned positions that lie in 0..N-1, every other position giving
   nothing. *)
C1_SoloPosicionesValidas ==
    Salio =>
        /\ ~prueba.salida.fault
        /\ prueba.salida.resultados = Esperado(prueba.devuelto, 1, prueba.chunks)

(* C6: the returned sequence has at most top_k elements. *)
C6_LongitudAcotada ==
    Salio => Len(prueba.salida.resultados) <= prueba.top_k

C6_Witness ==
    /\ Salio
    /\ ~prueba.salida.fault
    /\ prueba.top_k >= 2
    /\ Len(prueba.index[prueba.consulta]) > prueba.top_k
    /\ Len(prueba.salida.resultados) = prueba.top_k

Creciente(f, m) == \A i \in 1..m : \A j \in 1..m : i < j => f[i] < f[j]

NoCreciente(seq) ==
    \A i \in 1..Len(seq) : \A j \in 1..Len(seq) : i < j => seq[i] >= seq[j]

ScoresDe(pares) == [j \in 1..Len(pares) |-> pares[j][1]]

ScoresDeResultados(rs) == [j \in 1..Len(rs) |-> rs[j].score]

(* C7: the output is an order-preserving sub-sequence of the index answer:
   some strictly increasing map sends each output element to the returned
   (score, position) pair it was built from, so it carries that score and is
   the chunk addressed by that position; hence descending index scores give
   non-increasing output scores. *)
C7_OrdenDelIndice ==
    (Salio /\ ~prueba.salida.fault) =>
        LET rs == prueba.salida.resultados
            dv == prueba.devuelto
            n == Len(prueba.chunks)
        IN /\ \E f \in [1..Len(rs) -> 1..Len(dv)] :
                  /\ Creciente(f, Len(rs))
                  /\ \A i \in 1..Len(rs) :
                        /\ PyValid(dv[f[i]][2], n)
                        /\ rs[i] = ConScore(prueba.chunks[PyPos(dv[f[i]][2], n)],
                                            dv[f[i]][1])
           /\ NoCreciente(ScoresDe(dv)) => NoCreciente(ScoresDeResultados(rs))

C7_Witness ==
    /\ Salio
    /\ ~prueba.salida.fault
    /\ Len(prueba.salida.resultados) = 2
    /\ prueba.top_k = 3
    /\ prueba.devuelto[2][2] >= Len(prueba.chunks)
    /\ prueba.salida.resultados[1].score > prueba.salida.resultados[2].score
    /\ prueba.salida.resultados[1].chunk_id # prueba.salida.resultados[2].chunk_id

----------------------------------------------------------------------------
(* Properties of the application (Spec) *)

Coincide(u, c) == u \in DOMAIN USUARIOS /\ USUARIOS[u] = c

EmpiezaCon(str, prefijo) == str # None /\ Len(str) >= 1 /\ str[1] = prefijo

(* the last run got past the login gate and the sidebar to the main content *)
PaginaMostrada ==
    \/ last.evento \in {"recargar", "busqueda", "chat"}
    \/ last.evento \in {"ingresar", "rerun"} /\ autenticado[last.sesion]

FaltanArchivos == ~disk.index_exists \/ ~disk.chunks_exists

(* C2: pressing "Ingresar" with a pair of the credential mapping takes the
   session from unauthenticated to authenticated and records the user;
   with any other pair the flag and the user stay as they were and the
   rejection message is shown. *)
C2_Login ==
    [][\A s \in Sesiones : \A u \in LoginUsuarios : \A c \in LoginClaves :
          Ingresar(s, u, c) =>
             IF Coincide(u, c)
             THEN ~autenticado[s] /\ autenticado'[s] /\ usuario'[s] = u
                  /\ ~last'.rechazo
             ELSE autenticado' = autenticado /\ usuario' = usuario
                  /\ last'.rechazo]_vars

C2_Witness ==
    \E s \in Sesiones : \E t \in Sesiones :
        /\ autenticado[s] /\ usuario[s] = "raul"
        /\ ~autenticado[t] /\ usuario[t] = None
        /\ last.evento = "ingresar" /\ last.sesion = t /\ last.rechazo

(* C3: an authenticated session stays authenticated through every action
   except "Cerrar sesion", which always ends it; after that only a login
   with a matching pair authenticates the session again. *)
C3_SoloLogoutDesautentica ==
    [][\A s \in Sesiones :
          /\ (autenticado[s] /\ ~autenticado'[s])
                => (last'.evento = "cerrar_sesion" /\ last'.sesion = s)
          /\ CerrarSesion(s) => (~autenticado'[s] /\ usuario'[s] = None)
          /\ (~autenticado[s] /\ autenticado'[s])
                => \E u \in LoginUsuarios : \E c \in LoginClaves :
                      Ingresar(s, u, c) /\ Coincide(u, c)]_vars

C3_Witness ==
    \E s \in Sesiones :
        /\ autenticado[s]
        /\ Len(mensajes[s]) >= 2
        /\ EmpiezaCon(mensajes[s][2].content, ERROR_PREFIX)
        /\ last.evento = "recargar" /\ last.sesion = s

(* C4: with the index file or the chunk file absent, the load gives the
   "unavailable" value and never a bundle; every run that reaches the main
   content shows the error, and no run performs a retrieval or a remote
   call or records a message. *)
C4_IndiceNoDisponible ==
    FaltanArchivos =>
        /\ cache.kind \in {"vacio", "None"}
        /\ last.evento # "inicio" =>
              /\ last.busquedas = 0
              /\ last.llamadas_api = 0
              /\ PaginaMostrada => (cache.kind = "None" /\ last.error_indice)
        /\ \A s \in Sesiones : mensajes[s] = <<>>

C4_Witness ==
    /\ disk.index_exists /\ ~disk.chunks_exists
    /\ last.evento = "recargar"
    /\ last.error_indice
    /\ cache.kind = "None"

(* C5: a chat run whose remote call fails (timeout, non-2xx status, body
   without the choices path) ends without an exception; the answer starts
   with the error prefix, is shown and is recorded as the assistant message
   after the user's, and the session stays authenticated with the bundle
   loaded. *)
C5_ErrorComoRespuesta ==
    [][\A s \in Sesiones :
          (/\ last'.evento = "chat" /\ last'.sesion = s
           /\ last'.llamadas_api = 1
           /\ last'.api \in ApiOutcomes \ {"ok"}) =>
             /\ ~last'.excepcion
             /\ EmpiezaCon(last'.mostrado, ERROR_PREFIX)
             /\ mensajes'[s] = mensajes[s] \o
                   <<Usuario(last'.prompt.consulta), Asistente(last'.mostrado)>>
             /\ autenticado'[s]
             /\ cache'.kind = "bundle"]_vars

C5_Witness ==
    \E s \in Sesiones :
        /\ last.evento = "chat" /\ last.sesion = s
        /\ Len(mensajes[s]) = 4
        /\ EmpiezaCon(mensajes[s][2].content, ERROR_PREFIX)
        /\ mensajes[s][4].content = <<ERROR_PREFIX, "'choices'">>
        /\ last.mostrado = mensajes[s][4].content

(* C8 as stated: once the bundle is loaded, no action reads the files again
   or replaces the cached bundle. *)
C8_CargaUnica ==
    [][cache.kind # "vacio" => (~last'.leyo /\ cache' = cache)]_vars

(* C8 amended: once the bundle is loaded, only "Recargar" reads the files
   again, and it leaves the cache holding what the files hold; every other
   action reads nothing and leaves the cached bundle as it is; the first
   load is made by the first run that gets past the login gate. *)
C8_CargaUnicaSalvoRecargar ==
    [][/\ (cache.kind # "vacio" /\ last'.evento # "recargar")
             => (~last'.leyo /\ cache' = cache)
       /\ last'.evento = "recargar"
             => (last'.leyo /\ cache' = cargar_indice(disk))
       /\ (cache.kind = "vacio" /\ cache'.kind # "vacio")
             => (last'.leyo /\ cache' = cargar_indice(disk))]_vars

C8_Witness ==
    \E s \in Sesiones : \E t \in Sesiones :
        /\ s # t
        /\ mensajes[s] # <<>>
        /\ last.evento = "chat" /\ last.sesion = t
        /\ ~last.leyo
        /\ cache.kind = "bundle"

Alterna(msgs) ==
    /\ Len(msgs) % 2 = 0
    /\ \A i \in 1..Len(msgs) :
          msgs[i].role = IF i % 2 = 1 THEN "user" ELSE "assistant"

(* C9: the transcript changes only by a chat query appending one user entry
   with the query followed by one assistant entry with the answer shown, so
   it alternates user/assistant from a user entry on; the retrieval of a
   chat run is the one of its query on the loaded bundle. *)
C9_TranscriptSoloCrece ==
    [][\A s \in Sesiones :
          /\ mensajes'[s] # mensajes[s] =>
                /\ last'.evento = "chat" /\ last'.sesion = s
                /\ \E q \in ChatQueries :
                      mensajes'[s] = mensajes[s] \o
                          <<Usuario(q), Asistente(last'.mostrado)>>
          /\ Alterna(mensajes'[s])
          /\ (last'.evento = "chat" /\ last'.sesion = s) =>
                \E q \in ChatQueries :
                   /\ mensajes'[s][Len(mensajes[s]) + 1] = Usuario(q)
                   /\ last'.resultados =
                         buscar_documentos(q, cache.index, cache.chunks,
                                           TOP_K_DEFAULT).resultados]_vars

(* C10: the cached chunk list is always the list as loaded from the file:
   same length, same order, every record unaltered and without a score. *)
C10_ChunksIntactos ==
    cache.kind = "bundle" =>
        /\ cache.chunks = ChunkFile(disk.nchunks)
        /\ \A i \in 1..Len(cache.chunks) : "score" \notin DOMAIN cache.chunks[i]

C10_Witness ==
    \E s \in Sesiones : \E t \in Sesiones :
        /\ s # t
        /\ mensajes[s] # <<>> /\ mensajes[t] # <<>>
        /\ last.evento = "busqueda" /\ last.sesion = s /\ last.busquedas = 1
        /\ cache.kind = "bundle"
        /\ Len(cache.chunks) >= 2

(* C11: a run performs a retrieval or a remote call, or appends to the
   transcript, only for a session that is authenticated before and after
   the run and with the bundle loaded; a run of an unauthenticated session
   (a login attempt, accepted or not, or any rerun) and the logout run
   perform none of them. *)
C11_SoloAutenticadoYCargado ==
    [][\A s \in Sesiones :
          /\ (\/ (last'.sesion = s /\ last'.busquedas > 0)
              \/ (last'.sesion = s /\ last'.llamadas_api > 0)
              \/ mensajes'[s] # mensajes[s])
                => (/\ autenticado[s] /\ autenticado'[s]
                    /\ last'.sesion = s
                    /\ cache.kind = "bundle" /\ cache'.kind = "bundle")
          /\ (last'.sesion = s /\ (~autenticado[s] \/ ~autenticado'[s]))
                => (/\ last'.busquedas = 0
                    /\ last'.llamadas_api = 0
                    /\ mensajes' = mensajes)]_vars

C11_Witness ==
    \E s \in Sesiones :
        /\ ~autenticado[s]
        /\ mensajes[s] # <<>>
        /\ cache.kind = "bundle"
        /\ last.evento = "ingresar" /\ last.sesion = s /\ last.rechazo
        /\ last.busquedas = 0 /\ last.llamadas_api = 0

(* C12: the logout run changes the session's authentication flag and user
   name and nothing else of the sessions or the bundle: every transcript is
   left as it was; a login leaves every transcript as it was too, so the
   entries recorded before a logout are there after the next login. *)
C12_LogoutConservaTranscript ==
    [][/\ last'.evento = "cerrar_sesion" =>
             /\ mensajes' = mensajes
             /\ cache' = cache /\ disk' = disk
             /\ ~autenticado'[last'.sesion] /\ usuario'[last'.sesion] = None
             /\ \A t \in Sesiones \ {last'.sesion} :
                   autenticado'[t] = autenticado[t] /\ usuario'[t] = usuario[t]
       /\ last'.evento = "ingresar" => mensajes' = mensajes]_vars

C12_Witness ==
    \E s \in Sesiones :
        /\ autenticado[s] /\ usuario[s] = "abogado"
        /\ Len(mensajes[s]) = 4
        /\ last.evento = "ingresar" /\ last.sesion = s /\ ~last.rechazo

====
